---- MODULE Spec2Model ----
(***************************************************************************)
(* Order-book replica of src/main.go: the merge engine (updateOrders), the *)
(* diff stream consumer (connectWebSocket / handleWebSocketMessage), the   *)
(* persistence task (startOrderBookSaver) and the startup loop of main.    *)
(*                                                                         *)
(* Representation.  A price is the string of OrderBookItem.P; a size is an *)
(* integer standing for the float64 of OrderBookItem.S.  Update (seconds,  *)
(* float64) is held in thousandths of a second, so that                    *)
(* float64(wsMsg.Time) / 1000 is exact; wsMsg.Time is in milliseconds, the *)
(* unit that division implies.                                             *)
(*                                                                         *)
(* Specifications.  Spec: the whole program on a curated stream.           *)
(* MergeSpec, DiffSpec: updateOrders and the merge of one diff on drawn    *)
(* inputs, with the rendering of formatOrderBook.  FeedSpec: startup and   *)
(* consumer on frames with different stamps.  SaveSpec, FairSaveSpec: the  *)
(* program over several ticks with a disk that may fail, the history of    *)
(* rendered texts recorded.  LegacySpec: the older handler of              *)
(* src/unnamed/part_000 on drawn inputs.                                   *)
(***************************************************************************)
EXTENDS Integers, Sequences, FiniteSets, TLC

VARIABLES
    orderbooks,   \* var orderbooks map[string]OrderBookResponse
    mainPc,       \* main: index of the next contract of the snapshot loop
    loaded,       \* contracts whose getOrderBookSnapshot succeeded
    cpc,          \* consumer position: "off", "recv", "mapassign", "copy", "closed"
    frame,        \* what the handler looks at in the frame last received
    before,       \* the entry as the handler read it (existing, ok := orderbooks[contract])
    existing,     \* handleWebSocketMessage's local copy of the entry
    wkey,         \* the key the consumer assigns to
    written,      \* fields of orderbooks[wkey] already overwritten by the copy
    outcome,      \* the branch the handler took for the last frame
    nframes,      \* frames received so far
    feedTime,     \* wsMsg.Time of the frame last received
    ordered,      \* no frame so far was stamped earlier than its predecessor or the snapshots
    spc,          \* saver position: "off", "wait", "iter"
    todo,         \* keys the running range loop has not visited yet
    nticks,       \* ticks of the saver so far
    observed,     \* the (symbol, orderbook) pair last handed to saveOrderBook
    captured,     \* per symbol, the text formatOrderBook rendered for it since the last tick began
    previous,     \* captured as it was when the last tick began
    saveErr,      \* the last saveOrderBook call returned an error
    quiet,        \* ticks begun since the consumer last had a merge under way (capped)
    recording,    \* history on: captured and quiet are kept (fixed by Init)
    crashed,      \* the runtime threw "concurrent map iteration and map write"
    pin,          \* pure-function harness: the inputs
    pop,          \* pure-function harness: the operation applied
    pout          \* pure-function harness: the results

vars == <<orderbooks, mainPc, loaded, cpc, frame, before, existing, wkey, written,
          outcome, nframes, feedTime, ordered, spc, todo, nticks, observed,
          captured, previous, saveErr, quiet, recording, crashed, pin, pop,
          pout>>

sysVars == <<orderbooks, mainPc, loaded, cpc, frame, before, existing, wkey, written,
             outcome, nframes, feedTime, ordered, spc, todo, nticks, observed,
             captured, previous, saveErr, quiet, recording, crashed>>

mainVars == <<mainPc, loaded>>

consumerVars == <<cpc, frame, before, existing, wkey, written, outcome, nframes,
                  feedTime, ordered>>

saverVars == <<spc, todo, nticks, observed, captured, previous, saveErr>>

pureVars == <<pin, pop, pout>>

-----------------------------------------------------------------------------
(* Bounds and input sets *)

MaxUpd == 2          \* longest update list handed to updateOrders alone
MaxDiffEntries == 2  \* most entries (asks plus bids) in one diff
MaxFrames == 2       \* frames the consumer receives
MaxTicks == 1        \* ticks of the saver

Prices == {"100.0", "101.0"}
Sizes == {1, 2}                 \* resting sizes
UpdateSizes == {0} \cup Sizes   \* 0 is the removal instruction

Item(p, s) == [P |-> p, S |-> s]
Items == {Item(p, s) : p \in Prices, s \in Sizes}
UpdateItems == {Item(p, s) : p \in Prices, s \in UpdateSizes}

SeqsUpTo(S, n) == UNION {[1..k -> S] : k \in 0..n}

PricesOf(list) == {list[i].P : i \in DOMAIN list}
LevelSet(list) == {list[i] : i \in DOMAIN list}
UniquePrices(list) ==
    \A i, j \in DOMAIN list : list[i].P = list[j].P => i = j

\* One side of a book as the exchange delivers it: no price twice.
BookSides == {l \in SeqsUpTo(Items, Cardinality(Prices)) : UniquePrices(l)}
UpdateLists == SeqsUpTo(UpdateItems, MaxUpd)

-----------------------------------------------------------------------------
(* Merge engine: updateOrders *)

EmptyMap == [p \in {} |-> 0]
MapSet(m, k, v) == [p \in DOMAIN m \cup {k} |-> IF p = k THEN v ELSE m[p]]
MapDelete(m, k) == [p \in DOMAIN m \ {k} |-> m[p]]

\* for _, order := range existing { ordersMap[order.P] = order.S }
RECURSIVE LoadExisting(_, _)
LoadExisting(m, list) ==
    IF list = <<>> THEN m
    ELSE LoadExisting(MapSet(m, Head(list).P, Head(list).S), Tail(list))

\* Mutants of the loop body.
ApplyOneKeepZero(m, update) == MapSet(m, update.P, update.S)
ApplyOneInsertOnly(m, update) ==
    IF update.S = 0 THEN MapDelete(m, update.P)
    ELSE IF update.P \in DOMAIN m THEN m ELSE MapSet(m, update.P, update.S)
ApplyOneAccumulate(m, update) ==
    IF update.S = 0 THEN MapDelete(m, update.P)
    ELSE MapSet(m, update.P,
                (IF update.P \in DOMAIN m THEN m[update.P] ELSE 0) + update.S)
ApplyOneClearOnDelete(m, update) ==
    IF update.S = 0 THEN EmptyMap ELSE MapSet(m, update.P, update.S)
ApplyOneSubtract(m, update) ==
    IF update.S = 0 THEN MapDelete(m, update.P)
    ELSE MapSet(m, update.P,
                (IF update.P \in DOMAIN m THEN m[update.P] ELSE 0) - update.S)

\* if update.S == 0 { delete(ordersMap, update.P) } else { ordersMap[update.P] = update.S }
ApplyOne(m, update) ==
    IF update.S = 0 THEN MapDelete(m, update.P)
    ELSE MapSet(m, update.P, update.S)

\* for _, update := range updates { ... }
RECURSIVE ApplyUpdates(_, _)
ApplyUpdates(m, updates) ==
    IF updates = <<>> THEN m
    ELSE ApplyUpdates(ApplyOne(m, Head(updates)), Tail(updates))

ordersMap(current, updates) ==
    ApplyUpdates(LoadExisting(EmptyMap, current), updates)

\* for price, size := range ordersMap { result = append(result, ...) }
\* Go leaves the iteration order of a map unspecified: every enumeration of
\* the map's keys is a possible result.
Enumerations(S) ==
    {f \in [1..Cardinality(S) -> S] : \A i, j \in DOMAIN f : f[i] = f[j] => i = j}
Materialize(m) ==
    {[i \in DOMAIN ord |-> Item(ord[i], m[ord[i]])] : ord \in Enumerations(DOMAIN m)}

\* Mutant: the updates are appended to the existing slice, no map in between.
updateOrdersAppend(current, updates) == {current \o updates}

\* The set of slices updateOrders may return.
updateOrders(current, updates) == Materialize(ordersMap(current, updates))

-----------------------------------------------------------------------------
(* Order books, snapshots and frames *)

contracts == <<"BTC_USDT", "ETH_USDT", "LTC_USDT">>
Tracked == {contracts[i] : i \in DOMAIN contracts}

OrderBookUpdateChannel == "futures.order_book_update"

\* The zero value of OrderBookResponse, what a failed map lookup returns.
ZeroBook == [ID |-> 0, Current |-> 0, Update |-> 0, Asks |-> <<>>, Bids |-> <<>>]
NoBook == <<>>
NoCapture == [symbol |-> "", orderbook |-> NoBook]

\* The snapshot getOrderBookSnapshot returns when it succeeds (times in
\* thousandths of a second).
SnapshotBooks ==
    {[ID |-> 7, Current |-> 1000, Update |-> 1000,
      Asks |-> <<Item("100.0", 2)>>, Bids |-> <<Item("99.0", 3)>>]}

\* wsMsg.Time of the frames: later than the Update of the snapshot.
Times == {2000}

\* update.Asks and update.Bids of the frames on the stream: no entry, a
\* removal with an insert and an overwrite, a price named twice, an insert
\* on the ask side alone, a removal on the bid side alone.
StreamDiffs ==
    {[Asks |-> <<>>, Bids |-> <<>>],
     [Asks |-> <<Item("100.0", 0), Item("101.0", 1)>>, Bids |-> <<Item("99.0", 5)>>],
     [Asks |-> <<Item("101.0", 2), Item("101.0", 0)>>, Bids |-> <<>>],
     [Asks |-> <<Item("101.0", 1)>>, Bids |-> <<>>],
     [Asks |-> <<>>, Bids |-> <<Item("99.0", 0)>>]}

\* Every diff of at most MaxDiffEntries entries, for the harness.
Diffs ==
    UNION {{[Asks |-> a, Bids |-> b] : b \in SeqsUpTo(UpdateItems, MaxDiffEntries - Len(a))}
           : a \in SeqsUpTo(UpdateItems, MaxDiffEntries)}

\* Instrument ids a frame may name: none, two of the tracked ones (the first
\* tracked contract receives no frame), one never tracked.
FrameContracts == {"", contracts[2], contracts[3], "XRP_USDT"}

MkFrame(json, channel, event, resultOk, contract, diff, time) ==
    [json |-> json, Channel |-> channel, Event |-> event, resultOk |-> resultOk,
     Contract |-> contract, Asks |-> diff.Asks, Bids |-> diff.Bids, Time |-> time]

EmptyDiff == [Asks |-> <<>>, Bids |-> <<>>]

UpdateFrames ==
    {MkFrame(TRUE, OrderBookUpdateChannel, "update", TRUE, c, d, t) :
        c \in FrameContracts, d \in StreamDiffs, t \in Times}

\* Frames the handler does not decode as a diff: not JSON, another channel,
\* a subscription acknowledgement (decodable or not), an update whose result
\* does not decode, an event the handler does not know.
OtherFrames ==
    {MkFrame(FALSE, "", "", FALSE, "", EmptyDiff, 2000),
     MkFrame(TRUE, "futures.tickers", "update", TRUE, "BTC_USDT", EmptyDiff, 2000),
     MkFrame(TRUE, OrderBookUpdateChannel, "subscribe", TRUE, "", EmptyDiff, 2000),
     MkFrame(TRUE, OrderBookUpdateChannel, "subscribe", FALSE, "", EmptyDiff, 2000),
     MkFrame(TRUE, OrderBookUpdateChannel, "update", FALSE, "", EmptyDiff, 2000),
     MkFrame(TRUE, OrderBookUpdateChannel, "all", TRUE, "BTC_USDT", EmptyDiff, 2000)}

Frames == UpdateFrames \cup OtherFrames

\* What the model keeps of a received frame.
IsDiffFrame(f) ==
    f.json /\ f.Channel = OrderBookUpdateChannel /\ f.Event = "update" /\ f.resultOk
Digest(f) ==
    [diff |-> IsDiffFrame(f), Contract |-> f.Contract,
     empty |-> (f.Asks = <<>> /\ f.Bids = <<>>)]
NoFrame == [diff |-> FALSE, Contract |-> "", empty |-> TRUE]

-----------------------------------------------------------------------------
(* handleWebSocketMessage *)

\* existing, ok := orderbooks[contract]
Lookup(books, contract) ==
    IF contract \in DOMAIN books THEN books[contract] ELSE ZeroBook

\* Mutant: the guard of the merge dropped.
HasUpdatesAlways(f) == TRUE

\* if len(update.Asks) > 0 || len(update.Bids) > 0
HasUpdates(f) == Len(f.Asks) > 0 \/ Len(f.Bids) > 0

\* Mutant: the ok of the lookup is not looked at.
KnownContractAlways(books, contract) == TRUE

\* if !ok { ... return }
KnownContract(books, contract) == contract \in DOMAIN books

\* The branch the handler takes on frame f.
Branch(f, books) ==
    IF ~f.json THEN "parse_error"
    ELSE IF f.Channel # OrderBookUpdateChannel THEN "other_channel"
    ELSE IF f.Event = "subscribe"
         THEN (IF f.resultOk THEN "sub_status" ELSE "sub_parse_error")
    ELSE IF f.Event # "update" THEN "other_event"
    ELSE IF ~f.resultOk THEN "update_parse_error"
    ELSE IF f.Contract = "" THEN "empty_contract"
    ELSE IF ~KnownContract(books, f.Contract) THEN "no_orderbook"
    ELSE IF HasUpdates(f) THEN "updated"
    ELSE "empty_diff"

\* existing.Asks = updateOrders(existing.Asks, update.Asks)
SetAsks(e, f) == {[e EXCEPT !.Asks = a] : a \in updateOrders(e.Asks, f.Asks)}

\* Mutant: the bids are merged into the ask list of the local copy.
SetBidsFromAsks(e, f) == {[e EXCEPT !.Bids = b] : b \in updateOrders(e.Asks, f.Bids)}

\* existing.Bids = updateOrders(existing.Bids, update.Bids)
SetBids(e, f) == {[e EXCEPT !.Bids = b] : b \in updateOrders(e.Bids, f.Bids)}

\* Mutants: the stamp divided once more; Current stamped with Update.
SetUpdateDividedTwice(e, f) == [e EXCEPT !.Update = f.Time \div 1000]
SetUpdateAndCurrent(e, f) == [e EXCEPT !.Update = f.Time, !.Current = f.Time]

\* existing.Update = float64(wsMsg.Time) / 1000, in thousandths of a second
SetUpdate(e, f) == [e EXCEPT !.Update = f.Time]

\* The values the local copy may hold when it is assigned back.
ApplyUpdate(e, f) ==
    {SetUpdate(e2, f) : e2 \in UNION {SetBids(e1, f) : e1 \in SetAsks(e, f)}}

\* The fields of the entry the handler changed; ID and Current are copied
\* too, with the values they already have.
Fields == {"Update", "Asks", "Bids"}

-----------------------------------------------------------------------------
(* formatOrderBook and saveOrderBook *)

\* strconv.ParseFloat(p, 64) of the price strings in use, in tenths; the
\* caller drops the error, and the value of a string that does not parse is 0.
ParseFloat(p) ==
    IF p = "99.0" THEN 990
    ELSE IF p = "100.0" THEN 1000
    ELSE IF p = "101.0" THEN 1010
    ELSE 0

Reverse(list) == [i \in 1..Len(list) |-> list[Len(list) + 1 - i]]

\* fmt.Sprintf("ASK %.8f | %.8f\n", price, size), and the same with BID
Line(tag, order) == [tag |-> tag, price |-> ParseFloat(order.P), size |-> order.S]
LinesOf(tag, list) == [i \in DOMAIN list |-> Line(tag, list[i])]

\* sb.WriteString("------------------------\n")
SeparatorLine == [tag |-> "SEP", price |-> 0, size |-> 0]

\* Mutant: the tick count is written at the head of the text.
formatOrderBookStamped(orderbook) ==
    <<[tag |-> "TICK", price |-> 0, size |-> nticks]>>
    \o LinesOf("ASK", Reverse(orderbook.Asks)) \o <<SeparatorLine>>
    \o LinesOf("BID", orderbook.Bids)

\* The asks from the last element of the slice to the first, the separator,
\* the bids from the first element to the last.
formatOrderBook(orderbook) ==
    LinesOf("ASK", Reverse(orderbook.Asks)) \o <<SeparatorLine>>
    \o LinesOf("BID", orderbook.Bids)

\* What the collaborators of saveOrderBook may answer: MkdirAll fails (the
\* text is not rendered), WriteFile fails, both succeed.
SaveResults == {"ok", "mkdir_error", "write_error"}

\* err := saveOrderBook(symbol, orderbook)
saveOrderBook(symbol, orderbook, res) ==
    /\ observed' = [symbol |-> symbol, orderbook |-> orderbook]
    /\ captured' = IF ~recording \/ symbol = "" \/ res = "mkdir_error" THEN captured
                   ELSE MapSet(captured, symbol, formatOrderBook(orderbook))
    /\ saveErr' = (symbol = "" \/ res # "ok")
    /\ previous' = previous

-----------------------------------------------------------------------------
(* Pure-function harness: updateOrders on drawn inputs *)

Disjoint(u1, u2) == PricesOf(u1) \cap PricesOf(u2) = {}

NoInput == [cur |-> <<>>, u1 |-> <<>>, u2 |-> <<>>]
NoOutput == [a |-> <<>>, b |-> <<>>]

SysIdle ==
    /\ orderbooks = EmptyMap
    /\ mainPc = 1
    /\ loaded = {}
    /\ cpc = "off"
    /\ frame = NoFrame
    /\ before = NoBook
    /\ existing = NoBook
    /\ wkey = ""
    /\ written = {}
    /\ outcome = "none"
    /\ nframes = 0
    /\ feedTime = 0
    /\ ordered = TRUE
    /\ spc = "off"
    /\ todo = {}
    /\ nticks = 0
    /\ observed = NoCapture
    /\ captured = EmptyMap
    /\ previous = EmptyMap
    /\ saveErr = FALSE
    /\ quiet = 0
    /\ crashed = FALSE

MergeInit ==
    /\ SysIdle
    /\ recording = FALSE
    /\ pop = "none"
    /\ pout = NoOutput
    /\ \E cur \in BookSides, u1 \in UpdateLists :
         \E u2 \in {u \in UpdateLists : Disjoint(u1, u)} :
            pin = [cur |-> cur, u1 |-> u1, u2 |-> u2]

\* result := updateOrders(cur, u1)
MMerge ==
    /\ pop = "none"
    /\ \E r \in updateOrders(pin.cur, pin.u1) :
          pout' = [a |-> r, b |-> <<>>]
    /\ pop' = "merge"
    /\ UNCHANGED <<pin, sysVars>>

\* updateOrders(updateOrders(cur, u1), u2) and updateOrders(updateOrders(cur, u2), u1)
MCommute ==
    /\ pop = "none"
    /\ \E x \in updateOrders(pin.cur, pin.u1), y \in updateOrders(pin.cur, pin.u2) :
         \E xy \in updateOrders(x, pin.u2), yx \in updateOrders(y, pin.u1) :
            pout' = [a |-> xy, b |-> yx]
    /\ pop' = "commute"
    /\ UNCHANGED <<pin, sysVars>>

MergeNext == MMerge \/ MCommute

MergeSpec == MergeInit /\ [][MergeNext]_vars

-----------------------------------------------------------------------------
(* Pure-function harness: the merge of a whole diff into an entry *)

\* Entries the diff is merged into: every ask side, bid sides of at most one
\* level (both sides go through the same updateOrders).
HarnessBooks ==
    {[ID |-> 7, Current |-> 1000, Update |-> 1000, Asks |-> a, Bids |-> b] :
        a \in BookSides, b \in {l \in BookSides : Len(l) <= 1}}

DiffInit ==
    /\ SysIdle
    /\ recording = FALSE
    /\ pop = "none"
    /\ pout = NoOutput
    /\ \E b \in HarnessBooks, d \in Diffs, t \in Times :
          pin = [book |-> b, diff |-> [Asks |-> d.Asks, Bids |-> d.Bids, Time |-> t]]

\* The same diff merged into the entry, and then once more into the result.
DReplay ==
    /\ pop = "none"
    /\ \E once \in ApplyUpdate(pin.book, pin.diff) :
         \E twice \in ApplyUpdate(once, pin.diff) :
            pout' = [a |-> once, b |-> twice]
    /\ pop' = "replay"
    /\ UNCHANGED <<pin, sysVars>>

\* The two merges of the handler in the other order: bids, then asks.
ApplyBidsFirst(e, f) ==
    {SetUpdate(e2, f) : e2 \in UNION {SetAsks(e1, f) : e1 \in SetBids(e, f)}}

\* The diff merged as the handler does, asks then bids, and bids then asks.
DSides ==
    /\ pop = "none"
    /\ \E r \in ApplyUpdate(pin.book, pin.diff) :
         \E q \in ApplyBidsFirst(pin.book, pin.diff) :
            pout' = [a |-> r, b |-> q]
    /\ pop' = "sides"
    /\ UNCHANGED <<pin, sysVars>>

\* The text of the entry as loaded, and of the entry after the handler
\* merged the diff (a diff without entries is not merged).
DRender ==
    /\ pop = "none"
    /\ \E r \in (IF HasUpdates(pin.diff) THEN ApplyUpdate(pin.book, pin.diff)
                 ELSE {pin.book}) :
          pout' = [a |-> formatOrderBook(pin.book), b |-> formatOrderBook(r)]
    /\ pop' = "render"
    /\ UNCHANGED <<pin, sysVars>>

DiffNext == DReplay \/ DSides \/ DRender

DiffSpec == DiffInit /\ [][DiffNext]_vars

-----------------------------------------------------------------------------
(* The older handler of src/unnamed/part_000 on a drawn entry and frame *)

\* existing.Asks = wsMsg.Result.Asks
LegacySetAsks(e, f) == [e EXCEPT !.Asks = f.Asks]

\* existing.Bids = wsMsg.Result.Bids
LegacySetBids(e, f) == [e EXCEPT !.Bids = f.Bids]

\* if existing, ok := orderbooks[wsMsg.Result.Contract]; ok { ... }: what is
\* assigned back to the key.
LegacyApplyUpdate(e, f) == SetUpdate(LegacySetBids(LegacySetAsks(e, f), f), f)

\* A frame of the update channel for the contract of the drawn entry.
LHandle ==
    /\ pop = "none"
    /\ pout' = [a |-> pin.book, b |-> LegacyApplyUpdate(pin.book, pin.diff)]
    /\ pop' = "legacy"
    /\ UNCHANGED <<pin, sysVars>>

LegacyNext == LHandle

LegacySpec == DiffInit /\ [][LegacyNext]_vars

-----------------------------------------------------------------------------
(* main: the snapshot loop, then the two tasks *)

Init ==
    /\ SysIdle
    /\ recording = FALSE
    /\ pin = NoInput
    /\ pop = "none"
    /\ pout = NoOutput

Running == ~crashed /\ cpc # "closed"

\* Mutant: no continue after the error, the zero value is stored.
SnapshotFailsStored ==
    /\ mainPc <= Len(contracts)
    /\ orderbooks' = MapSet(orderbooks, contracts[mainPc], ZeroBook)
    /\ mainPc' = mainPc + 1
    /\ UNCHANGED <<loaded, consumerVars, saverVars, quiet, crashed, recording, pureVars>>

\* getOrderBookSnapshot failed: log and continue with the next contract.
SnapshotFails ==
    /\ mainPc <= Len(contracts)
    /\ mainPc' = mainPc + 1
    /\ UNCHANGED <<orderbooks, loaded, consumerVars, saverVars, quiet, crashed,
                   recording, pureVars>>

\* orderbooks[contract] = orderbook; saveOrderBook(contract, orderbook)
SnapshotLoadedWith(results) ==
    /\ mainPc <= Len(contracts)
    /\ \E b \in SnapshotBooks, res \in results :
          /\ orderbooks' = MapSet(orderbooks, contracts[mainPc], b)
          /\ saveOrderBook(contracts[mainPc], b, res)
    /\ loaded' = loaded \cup {contracts[mainPc]}
    /\ mainPc' = mainPc + 1
    /\ UNCHANGED <<consumerVars, spc, todo, nticks, quiet, crashed, recording, pureVars>>

\* go startOrderBookSaver(); connectWebSocket(contracts) up to its read loop
StartTasks ==
    /\ mainPc = Len(contracts) + 1
    /\ mainPc' = mainPc + 1
    /\ spc' = "wait"
    /\ cpc' = "recv"
    /\ UNCHANGED <<orderbooks, loaded, frame, before, existing, wkey, written,
                   outcome, nframes, feedTime, ordered, todo, nticks, observed,
                   captured, previous, saveErr, quiet, crashed, recording, pureVars>>

-----------------------------------------------------------------------------
(* Diff stream consumer *)

\* The branches in which a frame did not decode.
DecodeErrors == {"parse_error", "sub_parse_error", "update_parse_error"}

\* Mutant: the read loop is left when the handler could not decode a frame.
LoopAfterFatal(branch) == IF branch \in DecodeErrors THEN "closed" ELSE "recv"

\* handleWebSocketMessage(message) returns nothing: whatever branch it
\* took, the for loop of connectWebSocket reads the next message.
LoopAfter(branch) == "recv"

\* Mutant: the connection is opened again after a read error.
AfterReadErrorRetry == "recv"

\* log.Println("read:", err); return
AfterReadError == "closed"

\* The Update of the snapshots, the earliest stamp of a well-ordered stream.
SnapshotUpdate ==
    CHOOSE u \in {b.Update : b \in SnapshotBooks} :
        \A b \in SnapshotBooks : b.Update <= u

\* _, message, err := c.ReadMessage() delivered the frame f.
Delivered(f) ==
    /\ frame' = Digest(f)
    /\ nframes' = nframes + 1
    /\ feedTime' = f.Time
    /\ ordered' = (ordered /\ f.Time >= feedTime /\ f.Time >= SnapshotUpdate)

\* c.ReadMessage() fails: connectWebSocket returns, and main with it.
ReadError ==
    /\ Running /\ cpc = "recv"
    /\ cpc' = AfterReadError
    /\ outcome' = "read_error"
    /\ UNCHANGED <<orderbooks, mainVars, frame, before, existing, wkey, written,
                   nframes, feedTime, ordered, saverVars, quiet, crashed, recording, pureVars>>

\* A frame the handler returns from without assigning to the map.
DropFrameFrom(frames, limit) ==
    /\ Running /\ cpc = "recv" /\ nframes < limit
    /\ \E f \in frames :
          /\ Branch(f, orderbooks) # "updated"
          /\ Delivered(f)
          /\ outcome' = Branch(f, orderbooks)
          /\ cpc' = LoopAfter(Branch(f, orderbooks))
    /\ UNCHANGED <<orderbooks, mainVars, before, existing, wkey, written,
                   saverVars, quiet, crashed, recording, pureVars>>

\* A frame the handler merges: the entry is read and merged into the local
\* copy; the assignment orderbooks[contract] = existing comes next.
BeginUpdateFrom(frames, limit) ==
    /\ Running /\ cpc = "recv" /\ nframes < limit
    /\ \E f \in frames :
          /\ Branch(f, orderbooks) = "updated"
          /\ Delivered(f)
          /\ before' = Lookup(orderbooks, f.Contract)
          /\ existing' \in ApplyUpdate(Lookup(orderbooks, f.Contract), f)
          /\ wkey' = f.Contract
    /\ cpc' = "mapassign"
    /\ written' = {}
    /\ outcome' = "merged"
    /\ quiet' = 0
    /\ UNCHANGED <<orderbooks, mainVars, saverVars, crashed, recording, pureVars>>

\* runtime.mapassign: finds the slot of the key (a new key gets a zeroed
\* slot) with the map's writing flag set, and returns the slot.
MapAssign ==
    /\ Running /\ cpc = "mapassign"
    /\ orderbooks' = IF wkey \in DOMAIN orderbooks THEN orderbooks
                     ELSE MapSet(orderbooks, wkey, ZeroBook)
    /\ cpc' = "copy"
    /\ UNCHANGED <<mainVars, frame, before, existing, wkey, written, outcome,
                   nframes, feedTime, ordered, saverVars, quiet, crashed, recording, pureVars>>

\* The value is copied into the slot, not atomically: field by field, in an
\* order the build chooses.
CopyField ==
    /\ Running /\ cpc = "copy"
    /\ \E fld \in Fields \ written :
          /\ orderbooks' = [orderbooks EXCEPT ![wkey][fld] = existing[fld]]
          /\ written' = written \cup {fld}
    /\ UNCHANGED <<mainVars, cpc, frame, before, existing, wkey, outcome, nframes,
                   feedTime, ordered, saverVars, quiet, crashed, recording, pureVars>>

\* The assignment is complete: the slot holds the whole of existing, ID and
\* Current with it; log "Updated orderbook ..." and return.
EndUpdate ==
    /\ Running /\ cpc = "copy" /\ written = Fields
    /\ orderbooks' = [orderbooks EXCEPT ![wkey] = existing]
    /\ cpc' = LoopAfter("updated")
    /\ outcome' = "updated"
    /\ existing' = NoBook
    /\ before' = NoBook
    /\ wkey' = ""
    /\ written' = {}
    /\ UNCHANGED <<mainVars, frame, nframes, feedTime, ordered, saverVars, quiet,
                   crashed, recording, pureVars>>

-----------------------------------------------------------------------------
(* Persistence task: startOrderBookSaver *)

\* if err != nil { log.Printf(...) }: the range loop goes on either way.
AfterSave(err) == "iter"

QuietCap == 2

\* The ticker fires: for symbol, orderbook := range orderbooks
TickUpTo(limit) ==
    /\ Running /\ spc = "wait" /\ nticks < limit
    /\ spc' = "iter"
    /\ todo' = DOMAIN orderbooks
    /\ nticks' = nticks + 1
    /\ quiet' = IF ~recording \/ cpc # "recv" THEN 0
                ELSE IF quiet < QuietCap THEN quiet + 1 ELSE quiet
    /\ previous' = captured
    /\ captured' = EmptyMap
    /\ UNCHANGED <<orderbooks, mainVars, consumerVars, observed, saveErr, crashed,
                   recording, pureVars>>

\* One iteration: the entry is copied out of the map, whatever the slot
\* holds at that moment, and handed to saveOrderBook.
SaverVisitWith(results) ==
    /\ Running /\ spc = "iter"
    /\ \E symbol \in todo, res \in results :
          /\ saveOrderBook(symbol, orderbooks[symbol], res)
          /\ todo' = todo \ {symbol}
          /\ spc' = AfterSave(symbol = "" \/ res # "ok")
    /\ UNCHANGED <<orderbooks, mainVars, consumerVars, nticks, quiet, crashed,
                   recording, pureVars>>

\* The range loop is over: its variables symbol and orderbook are gone.
SaverDone ==
    /\ Running /\ spc = "iter" /\ todo = {}
    /\ spc' = "wait"
    /\ observed' = NoCapture
    /\ UNCHANGED <<orderbooks, mainVars, consumerVars, todo, nticks, captured,
                   previous, saveErr, quiet, crashed, recording, pureVars>>

\* The iterator finds the map's writing flag set: the runtime throws
\* "concurrent map iteration and map write" and the process dies.
SaverCrash ==
    /\ Running /\ spc = "iter" /\ cpc = "mapassign"
    /\ crashed' = TRUE
    /\ UNCHANGED <<orderbooks, mainVars, consumerVars, saverVars, quiet, recording, pureVars>>

-----------------------------------------------------------------------------
(* The program on the curated stream *)

\* The disk works: every saveOrderBook call succeeds.
DiskWorks == {"ok"}

SnapshotLoaded == SnapshotLoadedWith(DiskWorks)
DropFrame == DropFrameFrom(Frames, MaxFrames)
BeginUpdate == BeginUpdateFrom(Frames, MaxFrames)
Tick == TickUpTo(MaxTicks)
SaverVisit == SaverVisitWith(DiskWorks)

Next ==
    \/ SnapshotFails
    \/ SnapshotLoaded
    \/ StartTasks
    \/ ReadError
    \/ DropFrame
    \/ BeginUpdate
    \/ MapAssign
    \/ CopyField
    \/ EndUpdate
    \/ Tick
    \/ SaverVisit
    \/ SaverDone
    \/ SaverCrash

Spec == Init /\ [][Next]_vars

-----------------------------------------------------------------------------
(* The consumer alone, on a stream whose frames carry different stamps *)

MaxFeed == 3    \* frames the consumer receives from the stamped stream

\* wsMsg.Time of the stamped frames: before the snapshots, and two after.
FeedTimes == {500, 2000, 3000}

\* An insert on the ask side, a removal on the bid side, no entry.
FeedDiffs ==
    {[Asks |-> <<Item("101.0", 1)>>, Bids |-> <<>>],
     [Asks |-> <<>>, Bids |-> <<Item("99.0", 0)>>],
     EmptyDiff}

FeedFrames ==
    {MkFrame(TRUE, OrderBookUpdateChannel, "update", TRUE, c, d, t) :
        c \in Tracked \cup {""}, d \in FeedDiffs, t \in FeedTimes}
    \cup OtherFrames

FeedDrop == DropFrameFrom(FeedFrames, MaxFeed)
FeedUpdate == BeginUpdateFrom(FeedFrames, MaxFeed)

FeedNext ==
    \/ SnapshotFails
    \/ SnapshotLoaded
    \/ StartTasks
    \/ ReadError
    \/ FeedDrop
    \/ FeedUpdate
    \/ MapAssign
    \/ CopyField
    \/ EndUpdate

FeedSpec == Init /\ [][FeedNext]_vars

-----------------------------------------------------------------------------
(* The program over several ticks, with a disk that may fail once the *)
(* snapshots are saved                                                *)

SaveTicks == 2       \* ticks of the saver
SaveMaxFrames == 1   \* frames the consumer receives

\* One diff, for the first tracked contract: an insert on the ask side.
SaveFrames ==
    {MkFrame(TRUE, OrderBookUpdateChannel, "update", TRUE, contracts[1],
             [Asks |-> <<Item("101.0", 1)>>, Bids |-> <<>>], 2000)}

SaveInit ==
    /\ SysIdle
    /\ recording = TRUE
    /\ pin = NoInput
    /\ pop = "none"
    /\ pout = NoOutput

SaveDrop == DropFrameFrom(SaveFrames, SaveMaxFrames)
SaveUpdate == BeginUpdateFrom(SaveFrames, SaveMaxFrames)
SaveTick == TickUpTo(SaveTicks)
SaveVisit == SaverVisitWith(SaveResults)

SaveNext ==
    \/ SnapshotFails
    \/ SnapshotLoaded
    \/ StartTasks
    \/ ReadError
    \/ SaveDrop
    \/ SaveUpdate
    \/ MapAssign
    \/ CopyField
    \/ EndUpdate
    \/ SaveTick
    \/ SaveVisit
    \/ SaverDone
    \/ SaverCrash

SaveSpec == SaveInit /\ [][SaveNext]_vars

\* The ticker fires every 50 ms and the range loop runs to its end: the
\* steps of the saver are taken whenever they stay possible.
FairSaveSpec ==
    /\ SaveInit /\ [][SaveNext]_vars
    /\ WF_vars(SaveTick) /\ WF_vars(SaveVisit) /\ WF_vars(SaverDone)

-----------------------------------------------------------------------------
(* Claims about updateOrders, checked under MergeSpec *)

LastMention(u, p) ==
    CHOOSE i \in DOMAIN u :
        u[i].P = p /\ \A j \in DOMAIN u : u[j].P = p => j <= i

\* The levels the merge contract asks for, price by price.
ExpectedLevels(cur, u) ==
    {l \in LevelSet(cur) \cup LevelSet(u) :
        IF l.P \in PricesOf(u)
        THEN u[LastMention(u, l.P)].S # 0 /\ l.S = u[LastMention(u, l.P)].S
        ELSE l \in LevelSet(cur)}

\* C4: updateOrders returns exactly the levels decided price by price: the
\* last update entry for a price decides (size 0: absent, otherwise present
\* with that size); a price no update mentions keeps its current level.
\* Each level appears once; the order of the slice is not part of the claim.
C4_MergeContract ==
    pop = "merge" =>
        /\ LevelSet(pout.a) = ExpectedLevels(pin.cur, pin.u1)
        /\ UniquePrices(pout.a)

\* The example of the claim: asks [{100.0,2}] merged with [{100.0,0},{101.0,1}].
C4_Witness ==
    /\ pop = "merge"
    /\ pin.cur = <<Item("100.0", 2)>>
    /\ pin.u1 = <<Item("100.0", 0), Item("101.0", 1)>>
    /\ pout.a = <<Item("101.0", 1)>>

IsRemoval(u) == Len(u) = 1 /\ u[1].S = 0

\* C5: a size-0 update entry for a price that is not in the current levels
\* leaves the levels as they were; for a price that is in them it removes the
\* level with that price and leaves every other level as it was.
C5_RemovalSemantics ==
    (pop = "merge" /\ IsRemoval(pin.u1)) =>
        /\ LevelSet(pout.a) = {l \in LevelSet(pin.cur) : l.P # pin.u1[1].P}
        /\ Len(pout.a) = Cardinality({l \in LevelSet(pin.cur) : l.P # pin.u1[1].P})
        /\ pin.u1[1].P \notin PricesOf(pin.cur) =>
               /\ LevelSet(pout.a) = LevelSet(pin.cur)
               /\ Len(pout.a) = Len(pin.cur)

\* A removal of a present price, with another level resting beside it.
C5_Witness ==
    /\ pop = "merge"
    /\ IsRemoval(pin.u1)
    /\ pin.u1[1].P \in PricesOf(pin.cur)
    /\ Len(pin.cur) = 2
    /\ Len(pout.a) = 1

\* C7: for update lists that mention no common price, merging U1 then U2
\* gives the same levels as merging U2 then U1.
C7_CommutesOnDisjoint ==
    (pop = "commute" /\ Disjoint(pin.u1, pin.u2)) =>
        /\ LevelSet(pout.a) = LevelSet(pout.b)
        /\ Len(pout.a) = Len(pout.b)

\* Both lists act: one removes a resting level, the other inserts one.
C7_Witness ==
    /\ pop = "commute"
    /\ Disjoint(pin.u1, pin.u2)
    /\ pin.u1 # <<>> /\ pin.u2 # <<>>
    /\ \E i \in DOMAIN pin.u1 : pin.u1[i].S = 0 /\ pin.u1[i].P \in PricesOf(pin.cur)
    /\ \E i \in DOMAIN pin.u2 : pin.u2[i].S # 0 /\ pin.u2[i].P \notin PricesOf(pin.cur)
    /\ LevelSet(pout.a) # LevelSet(pin.cur)

-----------------------------------------------------------------------------
(* Claims about the merge of a diff, checked under DiffSpec *)

SameLevels(x, y) == LevelSet(x) = LevelSet(y) /\ Len(x) = Len(y)

\* No size-0 entry of the diff names a price the entry does not hold.
NoAbsentRemoval(book, diff) ==
    /\ \A i \in DOMAIN diff.Asks :
          diff.Asks[i].S = 0 => diff.Asks[i].P \in PricesOf(book.Asks)
    /\ \A i \in DOMAIN diff.Bids :
          diff.Bids[i].S = 0 => diff.Bids[i].P \in PricesOf(book.Bids)

\* C6: replaying a diff is idempotent: for a diff with no size-0 entry for an
\* absent price, merging it twice leaves the same asks and the same bids (the
\* same levels, each once) as merging it once.
C6_ReplayIdempotent ==
    (pop = "replay" /\ NoAbsentRemoval(pin.book, pin.diff)) =>
        /\ SameLevels(pout.a.Asks, pout.b.Asks)
        /\ SameLevels(pout.a.Bids, pout.b.Bids)
        /\ pout.a.Update = pout.b.Update

\* A replayed diff that changed the asks and the bids the first time.
C6_Witness ==
    /\ pop = "replay"
    /\ NoAbsentRemoval(pin.book, pin.diff)
    /\ pin.diff.Asks # <<>> /\ pin.diff.Bids # <<>>
    /\ LevelSet(pout.a.Asks) # LevelSet(pin.book.Asks)
    /\ LevelSet(pout.a.Bids) # LevelSet(pin.book.Bids)

\* C8: merging the asks before the bids and the bids before the asks give the
\* same entry (Update aside): each side holds the merge of that side's
\* levels before the diff with that side's updates.
C8_SidesIndependent ==
    pop = "sides" =>
        /\ SameLevels(pout.a.Asks, pout.b.Asks)
        /\ SameLevels(pout.a.Bids, pout.b.Bids)
        /\ pout.a.ID = pout.b.ID /\ pout.a.Current = pout.b.Current
        /\ LevelSet(pout.a.Asks) = ExpectedLevels(pin.book.Asks, pin.diff.Asks)
        /\ LevelSet(pout.a.Bids) = ExpectedLevels(pin.book.Bids, pin.diff.Bids)

\* A diff that changes both sides, merged in both orders.
C8_Witness ==
    /\ pop = "sides"
    /\ pin.diff.Asks # <<>> /\ pin.diff.Bids # <<>>
    /\ LevelSet(pout.a.Asks) # LevelSet(pin.book.Asks)
    /\ LevelSet(pout.a.Bids) # LevelSet(pin.book.Bids)
    /\ LevelSet(pout.a.Asks) # LevelSet(pout.a.Bids)

-----------------------------------------------------------------------------
(* Claims about the running system, checked under Spec *)

\* C1: in every reachable state, for every instrument of the store, no two
\* levels of asks share a price and no two levels of bids share a price.
C1_UniquePrices ==
    \A c \in DOMAIN orderbooks :
        UniquePrices(orderbooks[c].Asks) /\ UniquePrices(orderbooks[c].Bids)

\* Two frames were merged and an instrument holds two ask levels.
C1_Witness ==
    /\ nframes = 2
    /\ outcome = "updated"
    /\ \E c \in DOMAIN orderbooks :
          Len(orderbooks[c].Asks) = 2 /\ orderbooks[c].Update = 2000

\* The saver copies an entry out of the map in this step.
SaverReads == spc = "iter" /\ spc' = "iter" /\ todo' # todo

\* C2: an entry the persistence task reads while the consumer applies a diff
\* to that instrument is the entry entirely before the diff or entirely
\* after it.
C2_NoTornRead ==
    [][(SaverReads /\ cpc \in {"mapassign", "copy"} /\ observed'.symbol = wkey)
          => observed'.orderbook \in {before, existing}]_vars

\* C3: access to the store is mutually exclusive: the persistence task is
\* never inside its range loop while the consumer is assigning an entry.
C3_MutualExclusion ==
    ~(spc = "iter" /\ cpc \in {"mapassign", "copy"})

\* C9: an update frame with no ask update and no bid update leaves Update,
\* asks and bids of the instrument (the whole store) as they were.
C9_EmptyDiffNoOp ==
    [][(frame'.diff /\ frame'.empty) => orderbooks' = orderbooks]_vars

\* An empty diff for an instrument of the store was received after a merge.
C9_Witness ==
    /\ frame.diff /\ frame.empty
    /\ frame.Contract \in DOMAIN orderbooks
    /\ outcome = "empty_diff"
    /\ nframes = 2
    /\ orderbooks[frame.Contract].Update = 2000

\* C10: an update frame whose instrument id is empty or has no entry in the
\* store leaves the whole store unchanged: no merge, no new entry.
C10_UnknownInstrumentNoOp ==
    [][(frame'.diff /\ (frame'.Contract = "" \/ frame'.Contract \notin DOMAIN orderbooks))
          => orderbooks' = orderbooks]_vars

\* A non-empty diff for an instrument without entry was received and dropped.
C10_Witness ==
    /\ frame.diff /\ ~frame.empty
    /\ frame.Contract \notin DOMAIN orderbooks
    /\ frame.Contract # ""
    /\ outcome = "no_orderbook"
    /\ DOMAIN orderbooks # {}

\* C12: the keys of the store are exactly the tracked contracts whose
\* snapshot loaded, whatever happened to the others; after the snapshot loop
\* no frame and no tick adds or removes a key.
C12_KeySetFixed ==
    /\ DOMAIN orderbooks = loaded
    /\ loaded \subseteq Tracked
    /\ mainPc <= Len(contracts) =>
          loaded \subseteq {contracts[i] : i \in 1..(mainPc - 1)}

\* One snapshot failed, the others loaded; a merge and a tick have been done.
C12_Witness ==
    /\ Cardinality(loaded) = Len(contracts) - 1
    /\ outcome = "updated"
    /\ nticks = 1 /\ spc = "wait"
    /\ DOMAIN orderbooks = loaded

PositiveSizes(list) == \A i \in DOMAIN list : list[i].S > 0

\* C13: every level stored on either side of any entry has a size above
\* zero, the slot under assignment included.
C13_SizesPositive ==
    \A c \in DOMAIN orderbooks :
        PositiveSizes(orderbooks[c].Asks) /\ PositiveSizes(orderbooks[c].Bids)

\* A removal was merged: the bid of the snapshot is gone, the asks rest.
C13_Witness ==
    /\ outcome = "updated"
    /\ \E c \in DOMAIN orderbooks :
          orderbooks[c].Bids = <<>> /\ orderbooks[c].Asks # <<>>

-----------------------------------------------------------------------------
(* Claims about the consumer, checked under FeedSpec *)

C17_DecodeErrorDropsFrame ==
    [][(nframes' = nframes + 1 /\ outcome' \in DecodeErrors)
          => (orderbooks' = orderbooks /\ cpc' = "recv" /\ ~crashed')]_vars

\* A frame that does not decode arrived after a merge; the merge rests in
\* the store and the consumer can receive again.
C17_Witness ==
    /\ outcome \in DecodeErrors
    /\ cpc = "recv"
    /\ nframes = 2
    /\ \E c \in DOMAIN orderbooks : orderbooks[c].Update > SnapshotUpdate

\* C18: once a read failed, no step receives a frame, resumes the read loop
\* or changes the store.
C18_ReadErrorTerminal ==
    [][outcome = "read_error"
          => (orderbooks' = orderbooks /\ nframes' = nframes /\ cpc' = "closed"
              /\ outcome' = "read_error")]_vars

\* The read failed after a merge, frames still to come.
C18_Witness ==
    /\ outcome = "read_error"
    /\ cpc = "closed"
    /\ nframes \in 1..(MaxFeed - 1)
    /\ \E c \in DOMAIN orderbooks : orderbooks[c].Update > SnapshotUpdate

\* C19: no step changes an entry other than the one the frame last received
\* names, removes an entry, or changes the ID or Current of any entry.
C19_FrameTouchesOneEntry ==
    [][\A c \in DOMAIN orderbooks :
          /\ c \in DOMAIN orderbooks'
          /\ orderbooks'[c].ID = orderbooks[c].ID
          /\ orderbooks'[c].Current = orderbooks[c].Current
          /\ c # frame'.Contract => orderbooks'[c] = orderbooks[c]]_vars

\* One entry was merged into, another still is its snapshot.
C19_Witness ==
    /\ outcome = "updated"
    /\ \E c1, c2 \in DOMAIN orderbooks :
          /\ c1 = frame.Contract /\ c2 # c1
          /\ orderbooks[c1] \notin SnapshotBooks
          /\ orderbooks[c1].ID = orderbooks[c2].ID
          /\ orderbooks[c2] \in SnapshotBooks

-----------------------------------------------------------------------------
(* Claims about the rendered text and about the older handler *)

\* Asks as the exchange lists them in a snapshot: lowest price first.
AscendingAsks(list) ==
    \A i, j \in DOMAIN list : i < j => ParseFloat(list[i].P) < ParseFloat(list[j].P)

\* Ask lines from the highest price down, the separator, bid lines.
AsksThenBids(text) ==
    \E k \in DOMAIN text :
        /\ text[k] = SeparatorLine
        /\ \A i \in DOMAIN text :
              /\ i < k => text[i].tag = "ASK"
              /\ i > k => text[i].tag = "BID"
        /\ \A i, j \in 1..(k - 1) : i < j => text[i].price > text[j].price

\* C14: the text rendered for an entry, as loaded from a snapshot whose asks
\* come lowest price first and after a diff was merged into it, lists the
\* ask lines from the highest price down, then the separator, then the bids.
C14_AsksDescending ==
    (pop = "render" /\ AscendingAsks(pin.book.Asks))
        => (AsksThenBids(pout.a) /\ AsksThenBids(pout.b))

\* C20: the older handler keeps every level of the entry whose price the
\* frame does not mention, with its size.
C20_LegacyKeepsUnmentioned ==
    pop = "legacy" =>
        /\ \A l \in LevelSet(pout.a.Asks) :
              l.P \notin PricesOf(pin.diff.Asks) => l \in LevelSet(pout.b.Asks)
        /\ \A l \in LevelSet(pout.a.Bids) :
              l.P \notin PricesOf(pin.diff.Bids) => l \in LevelSet(pout.b.Bids)

-----------------------------------------------------------------------------
(* Claims about the persistence task, checked under SaveSpec and FairSaveSpec *)

\* C15: when two ticks in a row began with no merge under way and none has
\* begun since, the text rendered for a symbol in the second is the text
\* rendered for it in the first.
C15_QuietTicksSameText ==
    quiet >= 2 =>
        \A c \in DOMAIN captured \cap DOMAIN previous : captured[c] = previous[c]

\* A diff was merged, then two quiet ticks rendered the merged entry.
C15_Witness ==
    /\ quiet >= 2
    /\ outcome = "updated"
    /\ \E c \in DOMAIN captured \cap DOMAIN previous :
          /\ orderbooks[c].Update > SnapshotUpdate
          /\ captured[c] = formatOrderBook(orderbooks[c])
          /\ Len(captured[c]) > 2

\* C16: after a save failed in a tick, unless the stream ended, the next
\* tick comes and its range loop hands every entry to saveOrderBook.
C16_PersistenceGoesOn ==
    \A n \in 1..(SaveTicks - 1) :
        (saveErr /\ spc = "iter" /\ nticks = n)
            ~> (cpc = "closed" \/ (nticks = n + 1 /\ spc = "iter" /\ todo = {}))

====
